---------------------------- MODULE Spec2Model ----------------------------
(***************************************************************************)
(* A model of scraper.py: the page fetcher with bounded retries, the       *)
(* detail enricher, the listing parser, the price normalizer, the CSV      *)
(* writer and main.                                                        *)
(*                                                                         *)
(* Strings are sequences of tokens.  A token stands for a run of           *)
(* characters that the program's string operations never cut: a marker     *)
(* phrase, one whitespace character, one period, the three characters of   *)
(* the sentinel, a URL origin, a path.  The empty string is <<>>.          *)
(***************************************************************************)
EXTENDS Integers, Sequences, FiniteSets, TLC

VARIABLES
    pc,      \* the position of the running call chain
    fetch,   \* the frame of fetch_page
    parse,   \* the frame of parse_products
    det,     \* the frame of get_product_details
    out,     \* the output file and the calls of save_to_csv
    cp       \* the argument and results of clean_price

vars == <<pc, fetch, parse, det, out, cp>>

-----------------------------------------------------------------------------
(* Bounds of the model *)

MaxPriceLen == 4      \* tokens in a price string given to clean_price
MaxRetryCount == 4    \* the largest retry_count given to fetch_page
MaxBlocks == 2        \* product blocks on a listing page
MaxLinks == 2         \* candidate category links on a detail page

-----------------------------------------------------------------------------
(* Strings *)

NA == <<"N/A">>
SP == " "
DOT == "."
CUR == "Current price is:"
ORIG == "Original price was:"

RECURSIVE lstrip(_)
lstrip(s) == IF s # <<>> /\ Head(s) = SP THEN lstrip(Tail(s)) ELSE s

RECURSIVE rstrip(_)
rstrip(s) ==
    IF s # <<>> /\ s[Len(s)] = SP THEN rstrip(SubSeq(s, 1, Len(s) - 1)) ELSE s

\* str.strip(): whitespace removed at both ends
strip(s) == rstrip(lstrip(s))

RECURSIVE rstrip_chars(_, _)
\* str.rstrip(chars): the trailing tokens that are in chars removed
rstrip_chars(s, chars) ==
    IF s # <<>> /\ s[Len(s)] \in chars
    THEN rstrip_chars(SubSeq(s, 1, Len(s) - 1), chars)
    ELSE s

\* sub in s, for a one-token sub
Contains(s, sub) == \E k \in 1..Len(s) : s[k] = sub

\* the index of the first occurrence of sub at or after from, or 0
FindFrom(s, sub, from) ==
    IF \E k \in from..Len(s) : s[k] = sub
    THEN CHOOSE k \in from..Len(s) :
            s[k] = sub /\ \A j \in from..(k - 1) : s[j] # sub
    ELSE 0

\* s.split(sub)[0]
SplitFirst(s, sub) ==
    LET k == FindFrom(s, sub, 1)
    IN  IF k = 0 THEN s ELSE SubSeq(s, 1, k - 1)

\* s.split(sub)[1], for s that contains sub
SplitSecond(s, sub) ==
    LET k == FindFrom(s, sub, 1)
        n == FindFrom(s, sub, k + 1)
    IN  IF n = 0 THEN SubSeq(s, k + 1, Len(s)) ELSE SubSeq(s, k + 1, n - 1)

RECURSIVE SeqsUpTo(_, _)
\* the sequences over S of length at most n
SeqsUpTo(S, n) ==
    IF n = 0 THEN {<<>>}
    ELSE LET shorter == SeqsUpTo(S, n - 1)
         IN  shorter \cup {Append(s, x) : s \in shorter, x \in S}

-----------------------------------------------------------------------------
(* clean_price *)

\* the final clean-up of clean_price
FinalCleanup(price) == rstrip_chars(price, {DOT})

clean_price(price_text) ==
    IF price_text = <<>> \/ price_text = NA
    THEN NA
    ELSE LET price == IF Contains(price_text, CUR)
                      THEN strip(SplitSecond(price_text, CUR))
                      ELSE strip(price_text)
             kept == IF Contains(price, ORIG)
                     THEN strip(SplitFirst(price, ORIG))
                     ELSE price
         IN  FinalCleanup(kept)

-----------------------------------------------------------------------------
(* URLs.  A URL is <<origin, path, ...>>; an href or src is a reference that *)
(* urljoin resolves against the base URL.                                    *)

Origins == {"https://test.com", "https://cdn.test.com"}
MALFORMED == "http://["

\* args.url, which is also the base URL of parse_products
ListingUrl == <<"https://test.com", "/shop">>

\* the URL the tests give to get_product_details directly
DirectProductUrl == <<"https://test.com", "/product/test">>

IsRooted(tok) == tok \in {"/product/a", "/product/b", "/test-image.jpg", "/lazy.jpg"}

\* urljoin raises ValueError on a reference it cannot split
UrljoinRaises(base, url) == base # <<>> /\ url # <<>> /\ Contains(url, MALFORMED)

\* urljoin(base, url) for a base whose path is one segment
urljoin(base, url) ==
    IF base = <<>> THEN url
    ELSE IF url = <<>> THEN base
    ELSE IF Head(url) \in Origins THEN url
    ELSE IF IsRooted(Head(url)) THEN <<Head(base)>> \o url
    ELSE <<Head(base), "/">> \o url

-----------------------------------------------------------------------------
(* A product block of the listing page, as BeautifulSoup presents it.  An  *)
(* absent element or attribute is <<>>, a present one is <<value>>.  Texts *)
(* are what get_text(strip=True) returns.                                  *)

ADD_TO_CART == <<"Add to cart">>

\* 'add-to-cart' in href
HasAddToCart(href) == Contains(href, "add-to-cart") \/ Contains(href, "?add-to-cart=")

\* '?add-to-cart=' in href
HasAddToCartQuery(href) == Contains(href, "?add-to-cart=")

\* line 119: the link is a candidate product link
IsProductLink(link) ==
    link.href # <<>> /\ ~HasAddToCart(link.href) /\ ~HasAddToCartQuery(link.href)

\* lines 117-122: the first candidate link of the block, <<>> when there is none
FirstProductLink(links) ==
    IF \E k \in 1..Len(links) : IsProductLink(links[k])
    THEN <<links[CHOOSE k \in 1..Len(links) :
                IsProductLink(links[k])
                /\ \A j \in 1..(k - 1) : ~IsProductLink(links[j])]>>
    ELSE <<>>

\* lines 124-134: the name of the product
ProductName(product_link) ==
    LET text == IF product_link = <<>> THEN NA ELSE product_link[1].text
        named == IF product_link # <<>>
                    /\ (text = <<>> \/ text = ADD_TO_CART)
                    /\ product_link[1].img # <<>>
                 THEN LET alt == product_link[1].img[1]
                      IN  strip(IF alt = <<>> THEN <<>> ELSE alt[1])
                 ELSE text
    IN  IF named = <<>> \/ named = ADD_TO_CART THEN NA ELSE named

\* lines 136-138: the first of the three price spans that is present
PriceElement(spans) ==
    IF spans[1] # <<>> THEN spans[1]
    ELSE IF spans[2] # <<>> THEN spans[2]
    ELSE spans[3]

\* lines 139-145: the price of the product
ProductPrice(spans) ==
    LET price_element == PriceElement(spans)
    IN  IF price_element = <<>> THEN NA
        ELSE LET price_text == price_element[1]
             IN  IF Contains(price_text, CUR)
                 THEN strip(SplitSecond(price_text, CUR))
                 ELSE price_text

\* line 150: img.get('src') or img.get('data-src', 'N/A')
ImageRef(img) ==
    IF img.src # <<>> /\ img.src[1] # <<>> THEN img.src[1]
    ELSE IF img.data_src = <<>> THEN NA
    ELSE img.data_src[1]

\* lines 107-151: the basic fields of one block, or the exception it raises
BlockFields(block, base_url) ==
    LET product_link == FirstProductLink(block.links)
        hrefRaises == product_link # <<>>
                      /\ UrljoinRaises(base_url, product_link[1].href)
        imgRaises == block.img # <<>>
                     /\ UrljoinRaises(base_url, ImageRef(block.img[1]))
    IN  IF hrefRaises \/ imgRaises
        THEN [raised |-> TRUE, name |-> NA, price |-> NA, image_url |-> NA,
              product_url |-> NA]
        ELSE [raised |-> FALSE,
              name |-> ProductName(product_link),
              price |-> ProductPrice(block.spans),
              image_url |-> IF block.img = <<>> THEN NA
                            ELSE urljoin(base_url, ImageRef(block.img[1])),
              product_url |-> IF product_link = <<>> THEN NA
                              ELSE urljoin(base_url, product_link[1].href)]

NoImg == <<>>
Link(href, text, img) == [href |-> href, text |-> text, img |-> img]
Img(src, data_src) == [src |-> src, data_src |-> data_src]
CartLink == Link(<<"/shop", "?add-to-cart=", "5">>, ADD_TO_CART, NoImg)

\* the product blocks a listing page is made of
Blocks ==
    { \* the block of the tests: a cart link, then an image link
      [links |-> <<CartLink,
                   Link(<<"/product/a">>, <<>>, <<(<<(<<"Test Product">>)>>)>>)>>,
       spans |-> << <<>>, <<(<<"$99.99">>)>>, <<>> >>,
       img |-> <<Img(<<(<<"/test-image.jpg">>)>>, <<>>)>>],
      \* nothing recoverable
      [links |-> <<>>, spans |-> << <<>>, <<>>, <<>> >>, img |-> <<>>],
      \* a malformed href
      [links |-> <<Link(<<MALFORMED>>, <<"Broken">>, NoImg)>>,
       spans |-> << <<>>, <<(<<"$5">>)>>, <<>> >>, img |-> <<>>],
      \* a named link, an empty price span, an image with no source
      [links |-> <<Link(<<"/product/b">>, <<"Widget">>, NoImg)>>,
       spans |-> << <<>>, <<(<<>>)>>, <<(<<"$7">>)>> >>,
       img |-> <<Img(<<>>, <<>>)>>],
      \* only a cart link, a sale price, a lazily loaded image
      [links |-> <<CartLink>>,
       spans |-> << <<(<<ORIG, "$129.99", CUR, SP, "$99.99", DOT>>)>>, <<>>, <<>> >>,
       img |-> <<Img(<<(<<>>)>>, <<(<<"/lazy.jpg">>)>>)>>],
      \* a link without text or image, a bare marker as price, a malformed src
      [links |-> <<Link(<<"https://cdn.test.com", "/p">>, <<>>, NoImg)>>,
       spans |-> << <<>>, <<>>, <<(<<CUR>>)>> >>,
       img |-> <<Img(<<(<<MALFORMED>>)>>, <<>>)>>],
      \* a link named by a blank alt text, an image whose data-src is empty
      [links |-> <<Link(<<"/product/b">>, ADD_TO_CART, <<(<<(<<SP>>)>>)>>)>>,
       spans |-> << <<>>, <<>>, <<>> >>,
       img |-> <<Img(<<>>, <<(<<>>)>>)>>] }

\* soup.select('li.product, div.product') of the listing pages of the site
ListingDocs == SeqsUpTo(Blocks, MaxBlocks)

-----------------------------------------------------------------------------
(* A product detail page, as BeautifulSoup presents it.  desc holds the    *)
(* three description containers (rh-post-wrapper, short-description,       *)
(* post-inner), each absent or the text ' '.join(stripped_strings) gives,  *)
(* one token per character.  cats holds the five category containers in    *)
(* the order of category_containers, each absent or the texts of the       *)
(* elements container.select(...) returns, in document order.              *)

DescLimit == 500

StopList == {<<"home">>, <<"shop">>, <<"products">>}

LowerTok(tok) ==
    CASE tok = "Home" -> "home"
      [] tok = "SHOP" -> "shop"
      [] tok = "Products" -> "products"
      [] OTHER -> tok

\* str.lower()
lower(s) == [k \in 1..Len(s) |-> LowerTok(s[k])]

\* line 78: the text is kept as a category
IsCategoryText(category_text) == lower(category_text) \notin StopList

\* lines 75-79: the texts of one container's links appended to categories
AppendCategories(categories, category_links) ==
    categories \o SelectSeq(category_links, IsCategoryText)

\* line 80 with the break taken after the first container that has links
StopsAfterAnyLinks(categories) == TRUE

\* line 80: the loop over the containers stops
StopsAfter(categories) == categories # <<>>

RECURSIVE CollectCategories(_, _, _)
\* lines 70-81: the loop over category_containers from container k on
CollectCategories(containers, k, categories) ==
    IF k > Len(containers) THEN categories
    ELSE IF containers[k] # <<>> /\ containers[k][1] # <<>>
    THEN LET found == AppendCategories(categories, containers[k][1])
         IN  IF StopsAfter(found) THEN found
             ELSE CollectCategories(containers, k + 1, found)
    ELSE CollectCategories(containers, k + 1, categories)

RECURSIVE JoinWith(_, _)
\* sep.join(parts)
JoinWith(sep, parts) ==
    IF parts = <<>> THEN <<>>
    ELSE IF Len(parts) = 1 THEN parts[1]
    ELSE parts[1] \o sep \o JoinWith(sep, Tail(parts))

\* lines 47-56: the text of the first description container that is present
Description(desc) ==
    IF desc[1] # <<>> THEN desc[1][1]
    ELSE IF desc[2] # <<>> THEN desc[2][1]
    ELSE IF desc[3] # <<>> THEN desc[3][1]
    ELSE <<>>

\* line 84: description[:500]
Truncate(description) ==
    SubSeq(description, 1,
           IF Len(description) < DescLimit THEN Len(description) ELSE DescLimit)

\* lines 44-86: what get_product_details returns for a page that parses
PageDetails(page) ==
    LET description == Description(page.desc)
        categories == CollectCategories(page.cats, 1, <<>>)
    IN  [description |-> IF description # <<>> THEN Truncate(description) ELSE NA,
         categories |-> IF categories # <<>> THEN JoinWith(<<", ">>, categories)
                        ELSE NA]

\* line 89: what get_product_details returns from its exception handler
ErrorDetails == [description |-> NA, categories |-> NA]

\* line 87 with a handler for parse errors only
DetailsCatchesParseErrors(exc) == exc = "ParserError"

\* line 87: except Exception
DetailsCatches(exc) == exc \in {"RequestException", "ParserError"}

\* line 157: the details of a block without a product URL
NoDetails == [description |-> NA, categories |-> NA]

Absent == <<>>
Page(parses, desc, cats) == [parses |-> parses, desc |-> desc, cats |-> cats]

\* the detail pages behind the product links of the listing
ProductPages ==
    { \* the page of the tests
      Page(TRUE, << <<(<<"d", "e", "s", "c">>)>>, Absent, Absent >>,
           << Absent, Absent, Absent, <<(<<(<<"Test Category">>)>>)>>, Absent >>),
      \* a breadcrumb trail and a posted-in line
      Page(TRUE, << Absent, <<(<<"s">>)>>, <<(<<"p">>)>> >>,
           << <<(<< <<"Home">>, <<"Shoes">>, <<"Hats">> >>)>>, Absent, Absent,
              Absent, <<(<<(<<"Sale">>)>>)>> >>),
      \* an empty description container, a category link without text
      Page(TRUE, << <<(<<>>)>>, <<(<<"s">>)>>, Absent >>,
           << Absent, <<(<<(<<"SHOP">>)>>)>>, <<(<<(<<>>)>>)>>, Absent, Absent >>),
      \* a page without any of the containers
      Page(TRUE, << Absent, Absent, Absent >>,
           << Absent, Absent, Absent, Absent, Absent >>),
      \* a page the parser fails on
      Page(FALSE, << Absent, Absent, Absent >>,
           << Absent, Absent, Absent, Absent, Absent >>) }

CatTexts == {<<"Home">>, <<"SHOP">>, <<"Shoes">>, <<"Hats">>, <<>>}
ContainerIds == 1..5

\* at most MaxLinks candidate links, each placed in a container, in document order
PlacedLinks ==
    { l \in SeqsUpTo(CatTexts \X ContainerIds, MaxLinks) :
        \A k \in 1..(Len(l) - 1) : l[k][2] <= l[k + 1][2] }

RECURSIVE LinksOf(_, _)
\* the texts of the links placed in container c
LinksOf(l, c) ==
    IF l = <<>> THEN <<>>
    ELSE IF Head(l)[2] = c THEN <<Head(l)[1]>> \o LinksOf(Tail(l), c)
    ELSE LinksOf(Tail(l), c)

\* the category containers of a page: those of present, holding the links of l
Containers(l, present) ==
    [c \in ContainerIds |-> IF c \in present THEN <<LinksOf(l, c)>> ELSE Absent]

DescKinds ==
    { << Absent, Absent, Absent >>,
      << <<(<<"d">>)>>, Absent, <<(<<"p">>)>> >>,
      << Absent, <<(<<>>)>>, <<(<<"p">>)>> >> }

\* the detail pages a product URL given directly may hold
AnyPages ==
    { Page(TRUE, d, Containers(l, present)) :
        d \in DescKinds,
        l \in PlacedLinks,
        present \in SUBSET ContainerIds }
    \cup {Page(FALSE, << Absent, Absent, Absent >>,
               [c \in ContainerIds |-> Absent])}

-----------------------------------------------------------------------------
(* save_to_csv *)

\* lines 159-166: the keys of a product record, in the order the dict is built
RecordKeys == <<"name", "price", "image_url", "categories", "description", "product_url">>

\* lines 204-211: df.rename(columns=...)
RenamedColumn(key) ==
    CASE key = "name" -> "Product Name"
      [] key = "price" -> "Product Price"
      [] key = "categories" -> "Product Categories"
      [] key = "description" -> "Product Description"
      [] key = "image_url" -> "Product Image URL"
      [] key = "product_url" -> "Product Page URL"
      [] OTHER -> key

\* line 201: the columns of pd.DataFrame(products) are the keys of the records
DataFrameColumns(products) == RecordKeys

\* line 214: the cell of a record in a column
Cell(product, key) ==
    IF RenamedColumn(key) = "Product Price" THEN clean_price(product[key])
    ELSE product[key]

\* lines 201-217: the file df.to_csv(index=False) writes
CsvFile(products) ==
    LET columns == DataFrameColumns(products)
    IN  [header |-> [k \in 1..Len(columns) |-> RenamedColumn(columns[k])],
         rows |-> [r \in 1..Len(products) |->
                      [k \in 1..Len(columns) |-> Cell(products[r], columns[k])]]]

-----------------------------------------------------------------------------
(* fetch_page *)

DefaultRetryCount == 3

\* the pages the site may answer a URL with
Site(url) ==
    IF url = ListingUrl THEN ListingDocs
    ELSE IF url = DirectProductUrl THEN AnyPages
    ELSE ProductPages

IdleFetch ==
    [url |-> <<>>, retry_count |-> 0, attempt |-> 0, log |-> <<>>,
     status |-> "idle", result |-> <<>>]

\* lines 18-26: the call fetch_page(url, retry_count)
CallFetch(url, retry_count) ==
    [url |-> url, retry_count |-> retry_count, attempt |-> 0, log |-> <<>>,
     status |-> IF retry_count > 0 THEN "running" ELSE "returned",
     result |-> <<>>]

\* line 32 with the bound off by one
IsLastAttemptOffByOne(attempt, retry_count) == attempt = retry_count

\* line 32: the failed attempt was the last one
IsLastAttempt(attempt, retry_count) == attempt = retry_count - 1

\* lines 28-30: the request succeeds and fetch_page returns response.text
FetchSucceed ==
    /\ fetch.status = "running"
    /\ \E body \in Site(fetch.url) :
          fetch' = [fetch EXCEPT
                       !.log = Append(@, [ok |-> TRUE, body |-> <<body>>]),
                       !.status = "returned",
                       !.result = <<body>>]
    /\ UNCHANGED <<pc, parse, det, out, cp>>

\* lines 31-36: the request raises RequestException; the last attempt re-raises,
\* any other sleeps and the loop goes on (and ends, returning None, at its bound)
FetchFail ==
    /\ fetch.status = "running"
    /\ LET logged == Append(fetch.log, [ok |-> FALSE, body |-> <<>>])
       IN  fetch' =
             IF IsLastAttempt(fetch.attempt, fetch.retry_count)
             THEN [fetch EXCEPT !.log = logged, !.status = "raised"]
             ELSE IF fetch.attempt + 1 < fetch.retry_count
             THEN [fetch EXCEPT !.log = logged, !.attempt = @ + 1]
             ELSE [fetch EXCEPT !.log = logged, !.attempt = @ + 1,
                                !.status = "returned"]
    /\ UNCHANGED <<pc, parse, det, out, cp>>

-----------------------------------------------------------------------------
(* get_product_details *)

IdleDetails ==
    [url |-> <<>>, caller |-> "none", status |-> "idle", fetched |-> "none",
     page |-> <<>>, exc |-> "none", result |-> <<>>]

\* lines 38-43: the call get_product_details(product_url)
CallDetails(product_url, caller) ==
    [url |-> product_url, caller |-> caller, status |-> "running",
     fetched |-> "none", page |-> <<>>, exc |-> "none", result |-> <<>>]

\* the exception raised in the try block once fetch_page has ended, or "none"
DetailsException ==
    IF fetch.status = "raised" THEN "RequestException"
    ELSE IF fetch.result = <<>> THEN "ParserError"
    ELSE IF ~fetch.result[1].parses THEN "ParserError"
    ELSE "none"

\* lines 43-89: fetch_page has ended; the page is parsed and the details are
\* returned, or the exception is handled
DetailsAfterFetch ==
    /\ pc = "details_fetch"
    /\ fetch.status \in {"returned", "raised"}
    /\ LET exc == DetailsException
       IN  det' = [det EXCEPT
                      !.fetched = fetch.status,
                      !.page = fetch.result,
                      !.exc = exc,
                      !.status = IF exc = "none" \/ DetailsCatches(exc)
                                 THEN "returned" ELSE "raised",
                      !.result = IF exc = "none" THEN <<PageDetails(fetch.result[1])>>
                                 ELSE IF DetailsCatches(exc) THEN <<ErrorDetails>>
                                 ELSE <<>>]
    /\ fetch' = IdleFetch
    /\ pc' = "details_done"
    /\ UNCHANGED <<parse, out, cp>>

-----------------------------------------------------------------------------
(* parse_products *)

IdleParse ==
    [product_elements |-> <<>>, i |-> 1, products |-> <<>>, cur |-> <<>>,
     src |-> <<>>, skipped |-> {}, degraded |-> {}, status |-> "idle"]

\* line 154 with the guard dropped
HasProductUrlAlways(product_url) == TRUE

\* line 154: the block has a product URL to follow
HasProductUrl(product_url) == product_url # NA

\* lines 159-166: the record of a block
ProductRecord(fields, details) ==
    [name |-> fields.name,
     price |-> fields.price,
     image_url |-> fields.image_url,
     categories |-> details.categories,
     description |-> details.description,
     product_url |-> fields.product_url]

\* lines 168-170 with break in place of continue
AfterRaiseBreak(i, n) == n + 1

\* lines 168-170: the next block after one that raised (continue)
AfterRaise(i, n) == i + 1

\* lines 105-157: the next block is read; it raises and is skipped, or its
\* record is appended, or its detail page is asked for
ParseBlock ==
    /\ pc = "parse_loop"
    /\ parse.i <= Len(parse.product_elements)
    /\ LET fields == BlockFields(parse.product_elements[parse.i], ListingUrl)
       IN  IF fields.raised
           THEN /\ parse' = [parse EXCEPT
                                !.skipped = @ \cup {parse.i},
                                !.i = AfterRaise(parse.i, Len(parse.product_elements))]
                /\ UNCHANGED <<pc, fetch, det>>
           ELSE IF HasProductUrl(fields.product_url)
           THEN /\ parse' = [parse EXCEPT !.cur = <<fields>>]
                /\ det' = CallDetails(fields.product_url, "parse_products")
                /\ fetch' = CallFetch(fields.product_url, DefaultRetryCount)
                /\ pc' = "details_fetch"
           ELSE /\ parse' = [parse EXCEPT
                                !.products = Append(@, ProductRecord(fields, NoDetails)),
                                !.src = Append(@, parse.i),
                                !.i = @ + 1]
                /\ UNCHANGED <<pc, fetch, det>>
    /\ UNCHANGED <<out, cp>>

\* lines 155-170: get_product_details has ended; the record is appended, or
\* its exception is caught and the block is skipped
BlockAppend ==
    /\ pc = "details_done"
    /\ det.caller = "parse_products"
    /\ parse' =
         IF det.status = "returned"
         THEN [parse EXCEPT
                  !.products = Append(@, ProductRecord(parse.cur[1], det.result[1])),
                  !.src = Append(@, parse.i),
                  !.degraded = IF det.fetched = "raised" THEN @ \cup {parse.i} ELSE @,
                  !.cur = <<>>,
                  !.i = @ + 1]
         ELSE [parse EXCEPT
                  !.skipped = @ \cup {parse.i},
                  !.cur = <<>>,
                  !.i = AfterRaise(parse.i, Len(parse.product_elements))]
    /\ det' = IdleDetails
    /\ pc' = "parse_loop"
    /\ UNCHANGED <<fetch, out, cp>>

\* line 172: the loop is over and parse_products returns
ParseReturn ==
    /\ pc = "parse_loop"
    /\ parse.i > Len(parse.product_elements)
    /\ parse' = [parse EXCEPT !.status = "returned"]
    /\ pc' = "main_check"
    /\ UNCHANGED <<fetch, det, out, cp>>

-----------------------------------------------------------------------------
(* main *)

IdleOut == [file |-> <<>>, saves |-> 0, calls |-> <<>>, error |-> "none"]

\* line 246 with the guard dropped
ShouldSaveAlways(products) == TRUE

\* line 246: if products
ShouldSave(products) == products # <<>>

\* lines 241-243: main calls fetch_page(args.url)
MainStart ==
    /\ pc = "start"
    /\ fetch' = CallFetch(ListingUrl, DefaultRetryCount)
    /\ out' = [out EXCEPT !.calls = Append(@, "fetch_page")]
    /\ pc' = "main_fetch"
    /\ UNCHANGED <<parse, det, cp>>

\* lines 243-244, 252-254 and 95-103: the listing fetch has ended; main
\* re-raises its error, or calls parse_products, which finds the blocks
MainAfterFetch ==
    /\ pc = "main_fetch"
    /\ fetch.status \in {"returned", "raised"}
    /\ IF fetch.status = "raised"
       THEN /\ pc' = "raised"
            /\ out' = [out EXCEPT !.error = "fetch"]
            /\ UNCHANGED parse
       ELSE IF fetch.result = <<>>
       THEN /\ pc' = "raised"
            /\ out' = [out EXCEPT !.calls = Append(@, "parse_products"),
                                  !.error = "parse"]
            /\ UNCHANGED parse
       ELSE /\ out' = [out EXCEPT !.calls = Append(@, "parse_products")]
            /\ IF fetch.result[1] = <<>>
               THEN /\ parse' = [IdleParse EXCEPT !.status = "returned"]
                    /\ pc' = "main_check"
               ELSE /\ parse' = [IdleParse EXCEPT
                                    !.product_elements = fetch.result[1],
                                    !.status = "running"]
                    /\ pc' = "parse_loop"
    /\ fetch' = IdleFetch
    /\ UNCHANGED <<det, cp>>

\* lines 246-250: the records are saved, or there is nothing to export
MainCheck ==
    /\ pc = "main_check"
    /\ IF ShouldSave(parse.products)
       THEN /\ out' = [out EXCEPT !.calls = Append(@, "save_to_csv"),
                                  !.saves = @ + 1]
            /\ pc' = "saving"
       ELSE /\ pc' = "done"
            /\ UNCHANGED out
    /\ UNCHANGED <<fetch, parse, det, cp>>

\* lines 197-218: save_to_csv writes the file
SaveWrite ==
    /\ pc = "saving"
    /\ out' = [out EXCEPT !.file = <<CsvFile(parse.products)>>]
    /\ pc' = "done"
    /\ UNCHANGED <<fetch, parse, det, cp>>

\* lines 219-221 and 252-254: the file cannot be written; the error is re-raised
SaveFail ==
    /\ pc = "saving"
    /\ out' = [out EXCEPT !.error = "save"]
    /\ pc' = "raised"
    /\ UNCHANGED <<fetch, parse, det, cp>>

-----------------------------------------------------------------------------
(* One run of main *)

IdleClean == [arg |-> <<>>, results |-> <<>>]

Init ==
    /\ pc = "start"
    /\ fetch = IdleFetch
    /\ parse = IdleParse
    /\ det = IdleDetails
    /\ out = IdleOut
    /\ cp = IdleClean

Next ==
    \/ MainStart
    \/ FetchSucceed
    \/ FetchFail
    \/ MainAfterFetch
    \/ ParseBlock
    \/ DetailsAfterFetch
    \/ BlockAppend
    \/ ParseReturn
    \/ MainCheck
    \/ SaveWrite
    \/ SaveFail

Spec == Init /\ [][Next]_vars

-----------------------------------------------------------------------------
(* fetch_page called on its own, with any retry_count from 1 on *)

InitFetch ==
    /\ pc = "fetch_page"
    /\ \E url \in {ListingUrl, <<"https://test.com", "/product/a">>} :
       \E retry_count \in 1..MaxRetryCount :
          fetch = CallFetch(url, retry_count)
    /\ parse = IdleParse
    /\ det = IdleDetails
    /\ out = IdleOut
    /\ cp = IdleClean

NextFetch == FetchSucceed \/ FetchFail

SpecFetch == InitFetch /\ [][NextFetch]_vars

-----------------------------------------------------------------------------
(* get_product_details called on its own, on any detail page *)

InitDetails ==
    /\ pc = "details_fetch"
    /\ fetch = CallFetch(DirectProductUrl, DefaultRetryCount)
    /\ parse = IdleParse
    /\ det = CallDetails(DirectProductUrl, "caller")
    /\ out = IdleOut
    /\ cp = IdleClean

NextDetails == FetchSucceed \/ FetchFail \/ DetailsAfterFetch

SpecDetails == InitDetails /\ [][NextDetails]_vars

-----------------------------------------------------------------------------
(* clean_price applied to any price string, and to its own result *)

PriceTokens == {CUR, ORIG, SP, DOT, "$9", "N/A"}
PriceStrings == SeqsUpTo(PriceTokens, MaxPriceLen)

InitPrice ==
    /\ pc = "clean_price"
    /\ fetch = IdleFetch
    /\ parse = IdleParse
    /\ det = IdleDetails
    /\ out = IdleOut
    /\ \E price_text \in PriceStrings : cp = [arg |-> price_text, results |-> <<>>]

\* lines 174-191: clean_price is called, on the argument and then on its result
CleanPrice ==
    /\ pc = "clean_price"
    /\ Len(cp.results) < 2
    /\ cp' = [cp EXCEPT !.results =
                 Append(@, clean_price(IF @ = <<>> THEN cp.arg ELSE @[Len(@)]))]
    /\ UNCHANGED <<pc, fetch, parse, det, out>>

NextPrice == CleanPrice

SpecPrice == InitPrice /\ [][NextPrice]_vars

-----------------------------------------------------------------------------
(* Properties of fetch_page *)

AllFailed(log) == \A k \in 1..Len(log) : ~log[k].ok

\* C1: fetch_page makes its attempts one at a time until the first success
\* and returns the body of that attempt without a further attempt; when the
\* first retry_count attempts all fail it raises after exactly retry_count
\* attempts; attempt retry_count + 1 is never made.
FetchPageRetries ==
    LET log == fetch.log
        n == Len(log)
    IN  /\ n <= fetch.retry_count
        /\ \A k \in 1..(n - 1) : ~log[k].ok
        /\ fetch.status = "running" =>
              AllFailed(log) /\ n < fetch.retry_count
        /\ fetch.status = "returned" =>
              /\ n >= 1
              /\ log[n].ok
              /\ fetch.result = log[n].body
              /\ fetch.result # <<>>
        /\ fetch.status = "raised" =>
              AllFailed(log) /\ n = fetch.retry_count
        /\ (AllFailed(log) /\ n = fetch.retry_count) => fetch.status = "raised"

\* C1: fail, fail, succeed under retry_count 3 has returned after 3 attempts
FetchPageThirdAttemptSucceeds ==
    /\ fetch.retry_count = 3
    /\ fetch.status = "returned"
    /\ Len(fetch.log) = 3
    /\ ~fetch.log[1].ok /\ ~fetch.log[2].ok /\ fetch.log[3].ok
    /\ fetch.result = fetch.log[3].body

-----------------------------------------------------------------------------
(* Properties of clean_price *)

\* C2: clean_price is idempotent: applied to its own result it returns that
\* result.
CleanPriceIdempotent ==
    Len(cp.results) = 2 => cp.results[2] = cp.results[1]

\* s occurs in t as a run of consecutive tokens
IsSubstring(s, t) ==
    \E a \in 1..(Len(t) + 1) : \E b \in (a - 1)..Len(t) : s = SubSeq(t, a, b)

\* C3: for a price string that contains the marker 'Current price is:',
\* clean_price returns only text that follows the marker, without a trailing
\* period and without leading or trailing whitespace.
CleanPriceCurrentMarker ==
    (Len(cp.results) >= 1 /\ Contains(cp.arg, CUR)) =>
        LET r == cp.results[1]
            k == FindFrom(cp.arg, CUR, 1)
        IN  /\ IsSubstring(r, SubSeq(cp.arg, k + 1, Len(cp.arg)))
            /\ r # <<>> => /\ r[1] # SP
                           /\ r[Len(r)] # SP
                           /\ r[Len(r)] # DOT

-----------------------------------------------------------------------------
(* Properties of parse_products *)

Range(f) == {f[k] : k \in DOMAIN f}

\* C4: every record parse_products holds has all six fields, none of them
\* empty, and a field that cannot be recovered (a price element without
\* text, an image without src and data-src) holds the sentinel 'N/A'.
EveryFieldPopulated ==
    \A k \in 1..Len(parse.products) :
        LET record == parse.products[k]
            block == parse.product_elements[parse.src[k]]
        IN  /\ DOMAIN record = Range(RecordKeys)
            /\ \A key \in Range(RecordKeys) : record[key] # <<>>
            /\ (PriceElement(block.spans) = <<(<<>>)>>) => record.price = NA
            /\ (block.img = <<Img(<<>>, <<>>)>>) => record.image_url = NA

\* C5: a record whose product_url is 'N/A' has categories and description
\* 'N/A', and neither get_product_details nor a detail fetch is ever started
\* for the URL 'N/A'.
NoUrlNoDetails ==
    /\ \A k \in 1..Len(parse.products) :
          parse.products[k].product_url = NA =>
              /\ parse.products[k].categories = NA
              /\ parse.products[k].description = NA
    /\ det.status # "idle" => det.url # NA
    /\ fetch.status # "idle" => fetch.url # NA

\* C5: a record without a product URL has been appended
RecordWithoutUrl ==
    \E k \in 1..Len(parse.products) :
        /\ parse.products[k].product_url = NA
        /\ parse.products[k].name = NA
        /\ det.status = "idle"

\* the block raises while its basic fields are read
BlockRaises(block) ==
    \/ \E k \in 1..Len(block.links) :
          /\ Contains(block.links[k].href, MALFORMED)
          /\ \A j \in 1..(k - 1) :
                \/ block.links[j].href = <<>>
                \/ Contains(block.links[j].href, "?add-to-cart=")
                \/ Contains(block.links[j].href, "add-to-cart")
    \/ /\ block.img # <<>>
       /\ \/ block.img[1].src # <<>> /\ Contains(block.img[1].src[1], MALFORMED)
          \/ /\ block.img[1].src \in {<<>>, <<(<<>>)>>}
             /\ block.img[1].data_src # <<>>
             /\ Contains(block.img[1].data_src[1], MALFORMED)

\* C7: whatever blocks fail, parse_products goes on to every later block and
\* returns: a block that raises gives no record, a block whose detail fetch
\* fails gives a record with description and categories 'N/A', the records
\* are in the document order of their blocks, at most one per block.
BlockFailuresAreIsolated ==
    LET n == Len(parse.product_elements)
        src == parse.src
    IN  /\ out.error # "parse"
        /\ Len(src) = Len(parse.products)
        /\ \A k \in 1..Len(src) : src[k] \in 1..n /\ src[k] <= parse.i
        /\ \A k \in 1..(Len(src) - 1) : src[k] < src[k + 1]
        /\ \A k \in 1..Len(src) :
              /\ ~BlockRaises(parse.product_elements[src[k]])
              /\ src[k] \in parse.degraded =>
                    /\ parse.products[k].description = NA
                    /\ parse.products[k].categories = NA
        /\ parse.status = "returned" =>
              \A j \in 1..n :
                 \/ BlockRaises(parse.product_elements[j])
                 \/ j \in Range(src)

\* C7: a block raised, and a later block whose detail fetch failed gave a
\* record before parse_products returned
LaterBlockSurvivesFailure ==
    /\ parse.status = "returned"
    /\ \E j \in 1..Len(parse.product_elements) : \E k \in 1..Len(parse.src) :
          /\ BlockRaises(parse.product_elements[j])
          /\ j < parse.src[k]
          /\ parse.src[k] \in parse.degraded
          /\ parse.products[k].categories = NA

-----------------------------------------------------------------------------
(* Properties of get_product_details *)

\* C6: get_product_details never raises; when the detail fetch fails or the
\* page cannot be parsed it returns description 'N/A' and categories 'N/A'.
DetailsNeverRaise ==
    /\ det.status # "raised"
    /\ (/\ pc = "details_done"
        /\ \/ det.fetched = "raised"
           \/ det.page # <<>> /\ ~det.page[1].parses)
       => /\ det.status = "returned"
          /\ det.result = <<[description |-> NA, categories |-> NA]>>

\* C6: the detail fetch has failed on every attempt and the sentinels were
\* returned
DetailsFetchFailed ==
    /\ pc = "details_done"
    /\ det.fetched = "raised"
    /\ det.status = "returned"
    /\ det.result[1].description = NA
    /\ det.result[1].categories = NA

StopLabels == {<<"home">>, <<"Home">>, <<"shop">>, <<"SHOP">>, <<"products">>,
               <<"Products">>}

IsLabel(text) == text \in StopLabels
IsCategory(text) == text \notin StopLabels

\* the first container, in priority order, that is present and satisfies Has
FirstContainer(cats, Has(_)) ==
    LET good == {c \in DOMAIN cats : cats[c] # <<>> /\ Has(cats[c][1])}
    IN  IF good = {} THEN 0 ELSE CHOOSE c \in good : \A d \in good : c <= d

HasLinks(links) == links # <<>>
HasCategory(links) == \E k \in 1..Len(links) : IsCategory(links[k])

\* the categories string made of the links of container c
CategoriesOf(cats, c) ==
    LET kept == IF c = 0 THEN <<>> ELSE SelectSeq(cats[c][1], IsCategory)
    IN  IF kept = <<>> THEN NA
        ELSE IF Len(kept) = 1 THEN kept[1]
        ELSE IF Len(kept) = 2 THEN kept[1] \o <<", ">> \o kept[2]
        ELSE kept[1] \o <<", ">> \o kept[2] \o <<", ">> \o kept[3]

\* C10 as stated: the categories come from the first container that yields
\* candidate links: its link texts without the stoplist labels, joined with
\* ', ', or 'N/A' when nothing remains.
CategoriesOfFirstContainerWithLinks ==
    (pc = "details_done" /\ det.exc = "none") =>
        LET cats == det.page[1].cats
        IN  det.result[1].categories =
                CategoriesOf(cats, FirstContainer(cats, HasLinks))

\* C10 amended: the categories come from the first container that yields a
\* candidate link whose text is not a stoplist label: all its link texts in
\* document order without the stoplist labels, joined with ', '; no stoplist
\* label is part of the result, and the result is 'N/A' when no container
\* yields such a link.
CategoriesOfFirstContainerWithCategory ==
    (pc = "details_done" /\ det.exc = "none") =>
        LET cats == det.page[1].cats
            c == FirstContainer(cats, HasCategory)
            categories == det.result[1].categories
        IN  /\ categories = CategoriesOf(cats, c)
            /\ \A k \in 1..Len(categories) : ~IsLabel(<<categories[k]>>)
            /\ categories = NA <=> c = 0

\* C10: the first container with links holds stoplist labels only, and the
\* categories were taken from a later container
CategoriesOfLaterContainer ==
    /\ pc = "details_done"
    /\ det.exc = "none"
    /\ LET cats == det.page[1].cats
           first == FirstContainer(cats, HasLinks)
           c == FirstContainer(cats, HasCategory)
       IN  /\ first # 0 /\ c # 0 /\ first < c
           /\ cats[first][1] = <<(<<"Home">>)>>
           /\ det.result[1].categories = <<"Shoes">>

-----------------------------------------------------------------------------
(* Properties of main and save_to_csv *)

IsPrefix(s, t) == Len(s) <= Len(t) /\ s = SubSeq(t, 1, Len(s))

\* C8: in one run the listing is fetched, then parsed, then written;
\* save_to_csv is called at most once, and only after the listing fetch
\* succeeded and parse_products returned a record; a failed listing fetch
\* ends the run in error with nothing written; a listing without records
\* ends the run without error and without a file.
MainRunsInOrder ==
    /\ IsPrefix(out.calls, <<"fetch_page", "parse_products", "save_to_csv">>)
    /\ out.saves <= 1
    /\ out.saves = 1 =>
          /\ out.calls = <<"fetch_page", "parse_products", "save_to_csv">>
          /\ out.error # "fetch"
          /\ parse.status = "returned"
          /\ parse.products # <<>>
    /\ out.file # <<>> => out.saves = 1
    /\ pc = "saving" => out.saves = 1
    /\ out.error = "fetch" =>
          /\ pc = "raised"
          /\ out.calls = <<"fetch_page">>
          /\ out.saves = 0
          /\ out.file = <<>>
    /\ (parse.status = "returned" /\ parse.products = <<>>) =>
          /\ pc \in {"main_check", "done"}
          /\ out.error = "none"
          /\ out.saves = 0
          /\ out.file = <<>>

\* C8: a listing with blocks gave no record, and the run ended without a file
RunEndsWithoutRecords ==
    /\ pc = "done"
    /\ parse.product_elements # <<>>
    /\ parse.products = <<>>
    /\ out.file = <<>>

\* C9: the file save_to_csv writes has the header Product Name, Product
\* Price, Product Categories, Product Description, Product Image URL,
\* Product Page URL, and then one row per record, in the order of the records.
CsvHeaderAndRows ==
    out.file # <<>> =>
        LET file == out.file[1]
        IN  /\ file.header = <<"Product Name", "Product Price", "Product Categories",
                               "Product Description", "Product Image URL",
                               "Product Page URL">>
            /\ Len(file.rows) = Len(parse.products)
            /\ \A r \in 1..Len(file.rows) :
                  /\ Len(file.rows[r]) = 6
                  /\ parse.products[r].name \in Range(file.rows[r])
                  /\ parse.products[r].product_url \in Range(file.rows[r])

=============================================================================
